---- MODULE Spec2Model ----
(***************************************************************************)
(* A model of random_gen/random_gen.py: the class RandomGen, a weighted    *)
(* sampler over a list of numbers.                                         *)
(*                                                                         *)
(* Floats.  Every float the model handles is a multiple of 2^-55 below 8,  *)
(* and is held exactly as a pair <<hi, lo>> standing for                   *)
(* (hi * 2^28 + lo) * 2^-55 with 0 <= lo < 2^28.  An IEEE double keeps 53  *)
(* significant bits; FSum and FDiv round to 53 bits, to nearest, ties to   *)
(* even, as math.fsum and Python's int / int do.                           *)
(***************************************************************************)
EXTENDS Integers, Sequences, FiniteSets, TLC

(***************************************************************************)
(* Bounds of the model.                                                    *)
(***************************************************************************)
\* longest random_nums list a caller passes (the 53 bits of 1/n fit the
\* 2^-55 grid for n <= 8)
MaxNums == 5
\* longest probabilities list a caller passes
MaxProbs == 3

(***************************************************************************)
(* Exact arithmetic on the 2^-55 grid.                                     *)
(***************************************************************************)
Base == 2^28

\* hi limb of the first number with more than 53 significant bits (2^53)
Full == 2^25

Norm(hi, lo) == <<hi + (lo \div Base), lo % Base>>

Add(a, b) == Norm(a[1] + b[1], a[2] + b[2])

\* a - b for a >= b
Sub(a, b) ==
  IF a[2] >= b[2] THEN <<a[1] - b[1], a[2] - b[2]>>
  ELSE <<a[1] - b[1] - 1, a[2] + Base - b[2]>>

Less(a, b) == a[1] < b[1] \/ (a[1] = b[1] /\ a[2] < b[2])

Leq(a, b) == ~Less(b, a)

ShiftL(a, k) == Norm(a[1] * 2^k, a[2] * 2^k)

Zero == <<0, 0>>
One == <<2^27, 0>>

\* the number of bits of x beyond 53, for 0 <= x < 2^58
RECURSIVE ExtraBits(_)
ExtraBits(hi) == IF hi < Full THEN 0 ELSE 1 + ExtraBits(hi \div 2)

\* x rounded to 53 significant bits, to nearest, ties to even
RoundToDouble(x) ==
  LET d == ExtraBits(x[1])
      m == 2^d
      rem == x[2] % m
      down == x[2] - rem
      odd == (down \div m) % 2 = 1
      up == 2 * rem > m \/ (2 * rem = m /\ odd)
  IN IF d = 0 THEN x
     ELSE IF up THEN Norm(x[1], down + m) ELSE <<x[1], down>>

RECURSIVE ExactSum(_)
ExactSum(s) == IF s = <<>> THEN Zero ELSE Add(Head(s), ExactSum(Tail(s)))

\* math.fsum: the exact sum, rounded once
FSum(s) == RoundToDouble(ExactSum(s))

\* the least s >= 0 with a * 2^s >= n
RECURSIVE Scale(_, _)
Scale(a, n) == IF a >= n THEN 0 ELSE 1 + Scale(2 * a, n)

\* Python's a / n for ints 1 <= a <= n <= 8: the quotient rounded to 53 bits
FDiv(a, n) ==
  LET s == Scale(a, n)
      H == a * 2^(s + 24)
      q1 == H \div n
      r1 == H % n
      L == r1 * Base
      q0 == L \div n
      r0 == L % n
      up == 2 * r0 > n \/ (2 * r0 = n /\ q0 % 2 = 1)
      Q == IF up THEN Norm(q1, q0 + 1) ELSE <<q1, q0>>
  IN ShiftL(Q, 3 - s)

(***************************************************************************)
(* isclose(x, 1.0) of line 60, with the default rel_tol = 1e-09 and        *)
(* abs_tol = 0: |1.0 - x| <= max(rel_tol * 1.0, rel_tol * x).  The         *)
(* difference is a whole number of grid units, so it is within rel_tol     *)
(* exactly when it is at most the whole units in rel_tol, and the whole    *)
(* units in rel_tol * x are the same for every x the comparison can accept.*)
(***************************************************************************)
\* floor(1e-09 * 2^55), 1e-09 being the double nearest to 10^-9
RelTolUnits == 36028797

IsCloseToOne(x) ==
  LET diff == IF Less(x, One) THEN Sub(One, x) ELSE Sub(x, One)
  IN Leq(diff, <<0, RelTolUnits>>)

(***************************************************************************)
(* The inputs callers pass.                                                *)
(***************************************************************************)
NegHalf == <<-(2^26), 0>>
Half == <<2^26, 0>>
\* 0.5 - 2^-30: with 0.5 it sums to 1 - 2^-30, inside the tolerance of
\* isclose; two of them sum to 1 - 2^-29, outside it
HalfLess == <<2^26 - 1, Base - 2^25>>
Quarter == <<2^25, 0>>
\* the largest value random.random() returns, 1 - 2^-53
AlmostOne == <<2^27 - 1, Base - 4>>

ProbValues == {NegHalf, Zero, Half, HalfLess, One}

\* an optional argument: <<>> when it is left out (None), <<x>> when x is passed
None == <<>>
Some(x) == <<x>>

ProbLists == UNION {[1..n -> ProbValues] : n \in 0..MaxProbs}
ProbArgs == {None} \cup {Some(p) : p \in ProbLists}

Nums(n) == [i \in 1..n |-> 10 * i]
NumLists == {Nums(n) : n \in 0..MaxNums}

\* draws of random.random(): 0, values equal to cumulative sums, values
\* strictly between them, and the largest draw
Draws == {Zero, Quarter, Half, Add(Half, Quarter), AlmostOne}

(***************************************************************************)
(* State: the three attributes of one RandomGen object, whether its        *)
(* constructor has returned, and the outcome of the last call.             *)
(***************************************************************************)
VARIABLES random_nums, probabilities, cumulative_probabilities, constructed,
          last, call

\* Two threads sharing the object: the position of a thread that is inside
\* set_probabilities or __init__ (wpc, with the number of calls it has made), and the position and the locals of a
\* thread that is inside next_num (rpc, rand_num, the list loaded from
\* _random_nums, left, right).  r_seen is the set of lists the reader found
\* in _cumulative_probabilities; quiet is the pair of lists the object held
\* when the writer's last call returned, and stable the set of such pairs
\* since the reader's call began.
VARIABLES wpc, nwrites, rpc, rand_num, r_nums, r_left, r_right, r_seen,
          quiet, stable

state == <<random_nums, probabilities, cumulative_probabilities>>
writer == <<wpc, nwrites>>
reader == <<rpc, rand_num, r_nums, r_left, r_right, r_seen>>
threads == <<wpc, nwrites, rpc, rand_num, r_nums, r_left, r_right,
             r_seen, quiet, stable>>
vars == <<random_nums, probabilities, cumulative_probabilities, constructed,
          last, call, threads>>

NoCall == [op |-> "none", nums |-> <<>>, arg |-> None]

Outcome(op, err) == [op |-> op, err |-> err, u |-> Zero, idx |-> 0, ret |-> 0]

\* lines 40-41: `if not random_nums: raise ValueError`
NumsError(nums) == IF Len(nums) = 0 THEN "empty" ELSE "ok"

\* line 55: `if probabilities:` is true of a list that is passed and not empty
Truthy(arg) == arg # None /\ Len(arg[1]) > 0

\* ProbsError without the check of line 58
ProbsErrorNoSignCheck(nums, arg) ==
  IF arg # None /\ Len(arg[1]) > 0
  THEN LET p == arg[1]
       IN IF Len(nums) # Len(p) THEN "length"
          ELSE IF ~IsCloseToOne(FSum(p)) THEN "sum"
          ELSE "ok"
  ELSE "ok"

\* lines 55-61: the checks of set_probabilities, in the order of the code
ProbsError(nums, arg) ==
  IF Truthy(arg)
  THEN LET p == arg[1]
       IN IF Len(nums) # Len(p) THEN "length"
          ELSE IF \E i \in 1..Len(p) : Less(p[i], Zero) THEN "negative"
          ELSE IF ~IsCloseToOne(FSum(p)) THEN "sum"
          ELSE "ok"
  ELSE "ok"

\* NewProbabilities with `1 // len(...)` for `1 / len(...)`
NewProbabilitiesFloorDiv(nums, arg) ==
  IF arg # None /\ Len(arg[1]) > 0 THEN arg[1]
  ELSE [i \in 1..Len(nums) |-> IF Len(nums) = 1 THEN One ELSE Zero]

\* lines 62-65: the list stored in _probabilities
NewProbabilities(nums, arg) ==
  IF Truthy(arg) THEN arg[1]
  ELSE [i \in 1..Len(nums) |-> FDiv(1, Len(nums))]

\* Cumulative with the slice [:i] for [:i+1]
CumulativeShortSlice(probs) ==
  [i \in 1..Len(probs) |-> FSum(SubSeq(probs, 1, i - 1))]

\* line 67: [fsum(self._probabilities[:i+1]) for i in range(len(...))]
Cumulative(probs) == [i \in 1..Len(probs) |-> FSum(SubSeq(probs, 1, i))]

\* Search with `<=` for `<` in line 92
RECURSIVE SearchUpperBound(_, _, _, _)
SearchUpperBound(cum, u, left, right) ==
  IF left < right
  THEN LET mid == left + ((right - left) \div 2)
       IN IF Leq(cum[mid + 1], u)
          THEN SearchUpperBound(cum, u, mid + 1, right)
          ELSE SearchUpperBound(cum, u, left, mid)
  ELSE left

\* lines 89-96: the loop of _find_index, on 0-based indices
RECURSIVE Search(_, _, _, _)
Search(cum, u, left, right) ==
  IF left < right
  THEN LET mid == left + ((right - left) \div 2)
       IN IF Less(cum[mid + 1], u)
          THEN Search(cum, u, mid + 1, right)
          ELSE Search(cum, u, left, mid)
  ELSE left

find_index(cum, u) == Search(cum, u, 0, Len(cum) - 1)

(***************************************************************************)
(* The calls, each a whole method.                                         *)
(***************************************************************************)
\* RandomGen(nums, arg), lines 27-28; an object whose constructor raised is
\* never bound, so the attributes stay unset
InitBody(nums, arg) ==
  /\ ~constructed
  /\ LET e1 == NumsError(nums)
         e2 == IF e1 = "ok" THEN ProbsError(nums, arg) ELSE e1
     IN /\ last' = Outcome("init", e2)
        /\ IF e2 = "ok"
           THEN /\ random_nums' = nums
                /\ probabilities' = NewProbabilities(nums, arg)
                /\ cumulative_probabilities' = Cumulative(probabilities')
                /\ constructed' = TRUE
           ELSE UNCHANGED <<state, constructed>>

\* set_random_nums(nums), lines 40-42
SetNumsBody(nums) ==
  /\ constructed
  /\ last' = Outcome("set_random_nums", NumsError(nums))
  /\ IF NumsError(nums) = "ok"
     THEN random_nums' = nums
     ELSE UNCHANGED random_nums
  /\ UNCHANGED <<probabilities, cumulative_probabilities, constructed>>

\* SetProbsBody with line 65 moved before the checks
SetProbsBodyCommitFirst(arg) ==
  /\ constructed
  /\ last' = Outcome("set_probabilities", ProbsError(random_nums, arg))
  /\ probabilities' = NewProbabilities(random_nums, arg)
  /\ IF ProbsError(random_nums, arg) = "ok"
     THEN cumulative_probabilities' = Cumulative(probabilities')
     ELSE UNCHANGED cumulative_probabilities
  /\ UNCHANGED <<random_nums, constructed>>

\* set_probabilities(arg), lines 55-67
SetProbsBody(arg) ==
  /\ constructed
  /\ last' = Outcome("set_probabilities", ProbsError(random_nums, arg))
  /\ IF ProbsError(random_nums, arg) = "ok"
     THEN /\ probabilities' = NewProbabilities(random_nums, arg)
          /\ cumulative_probabilities' = Cumulative(probabilities')
     ELSE UNCHANGED <<probabilities, cumulative_probabilities>>
  /\ UNCHANGED <<random_nums, constructed>>

\* next_num() with random.random() returning u, lines 76-77; indexing
\* _random_nums past its end raises IndexError
NextNumBody(u) ==
  /\ constructed
  /\ LET i == find_index(cumulative_probabilities, u)
     IN last' = [op |-> "next_num",
                 err |-> IF i < Len(random_nums) THEN "ok" ELSE "IndexError",
                 u |-> u, idx |-> i,
                 ret |-> IF i < Len(random_nums) THEN random_nums[i + 1] ELSE 0]
  /\ UNCHANGED <<state, constructed>>

RandomGen_init(nums, arg) ==
  InitBody(nums, arg) /\ UNCHANGED <<call, threads>>

set_random_nums(nums) ==
  SetNumsBody(nums) /\ UNCHANGED <<call, threads>>

set_probabilities(arg) ==
  SetProbsBody(arg) /\ UNCHANGED <<call, threads>>

next_num(u) ==
  NextNumBody(u) /\ UNCHANGED <<call, threads>>

Init ==
  /\ random_nums = <<>>
  /\ probabilities = <<>>
  /\ cumulative_probabilities = <<>>
  /\ constructed = FALSE
  /\ last = Outcome("none", "ok")
  /\ call = NoCall
  /\ wpc = "idle" /\ nwrites = 0
  /\ rpc = "idle" /\ rand_num = Zero /\ r_nums = <<>>
  /\ r_left = 0 /\ r_right = 0 /\ r_seen = {}
  /\ quiet = <<>> /\ stable = {}

Next ==
  \/ ~constructed /\ \E nums \in NumLists, arg \in ProbArgs :
                        RandomGen_init(nums, arg)
  \/ constructed /\ \E nums \in NumLists : set_random_nums(nums)
  \/ constructed /\ \E arg \in ProbArgs : set_probabilities(arg)
  \/ constructed /\ \E u \in Draws : next_num(u)

Spec == Init /\ [][Next]_vars

(***************************************************************************)
(* A caller's script RandomGen(..); set_random_nums(..); set_probabilities *)
(* (..); next_num(), each call after the first optional, with the          *)
(* arguments of the last call kept in `call`.  The script catches no       *)
(* exception: it ends at the first call that raises.                       *)
(***************************************************************************)
Called(op, nums, arg) == [op |-> op, nums |-> nums, arg |-> arg]

InitCall(nums, arg) ==
  /\ call.op = "none"
  /\ InitBody(nums, arg)
  /\ call' = Called("init", nums, arg)
  /\ UNCHANGED threads

SetNumsCall(nums) ==
  /\ call.op = "init" /\ last.err = "ok"
  /\ SetNumsBody(nums)
  /\ call' = Called("set_random_nums", nums, None)
  /\ UNCHANGED threads

SetProbsCall(arg) ==
  /\ call.op \in {"init", "set_random_nums"} /\ last.err = "ok"
  /\ SetProbsBody(arg)
  /\ call' = Called("set_probabilities", random_nums, arg)
  /\ UNCHANGED threads

NextNumCall(u) ==
  /\ call.op # "next_num" /\ last.err = "ok"
  /\ NextNumBody(u)
  /\ call' = Called("next_num", random_nums, None)
  /\ UNCHANGED threads

\* the script goes on: the object is built and the last call returned
Running == constructed /\ last.err = "ok"

NextCalls ==
  \/ call.op = "none" /\ \E nums \in NumLists, arg \in ProbArgs :
                            InitCall(nums, arg)
  \/ Running /\ call.op = "init" /\ \E nums \in NumLists : SetNumsCall(nums)
  \/ Running /\ call.op \in {"init", "set_random_nums"}
             /\ \E arg \in ProbArgs : SetProbsCall(arg)
  \/ Running /\ call.op # "next_num" /\ \E u \in Draws : NextNumCall(u)

SpecCalls == Init /\ [][NextCalls]_vars

(***************************************************************************)
(* One object shared by two threads with no lock: a writer that calls      *)
(* set_random_nums, set_probabilities and __init__ on it, and a reader     *)
(* that calls next_num.  A step is one load or store of an attribute of    *)
(* the object, with the work on locals around it.                          *)
(***************************************************************************)
\* the writer makes at most this many calls
MaxWrites == 1

ConcValues == {Zero, Half, One}
ConcArgs ==
  {None} \cup {Some(p) : p \in UNION {[1..n -> ConcValues] : n \in 1..MaxProbs}}
ConcNums == {Nums(n) : n \in 1..MaxProbs}

\* the pair a reader may see: the numbers and the cumulative list
Pair == <<random_nums, cumulative_probabilities>>

\* the writer's call returns or raises, leaving the pair `now`
Returns(now) ==
  /\ quiet' = now
  /\ stable' = IF rpc \in {"idle", "done"} THEN stable ELSE stable \cup {now}

\* the object the threads share, built by RandomGen(nums, arg)
InitShared ==
  /\ \E nums \in ConcNums, arg \in ConcArgs :
       /\ ProbsError(nums, arg) = "ok"
       /\ random_nums = nums
       /\ probabilities = NewProbabilities(nums, arg)
       /\ cumulative_probabilities = Cumulative(probabilities)
  /\ constructed = TRUE
  /\ last = Outcome("init", "ok")
  /\ call = NoCall
  /\ wpc = "idle" /\ nwrites = 0
  /\ rpc = "idle" /\ rand_num = Zero /\ r_nums = <<>>
  /\ r_left = 0 /\ r_right = 0 /\ r_seen = {}
  /\ quiet = Pair /\ stable = {}

\* set_random_nums(nums), line 42: the one store of the call
WriteNums(nums) ==
  /\ wpc = "idle" /\ nwrites < MaxWrites
  /\ random_nums' = nums
  /\ nwrites' = nwrites + 1
  /\ Returns(<<nums, cumulative_probabilities>>)
  /\ UNCHANGED <<probabilities, cumulative_probabilities, constructed, last,
                 call, wpc, reader>>

\* set_probabilities(arg), lines 55-65: the checks and the store of
\* _probabilities; a call that raises returns here
WriteProbs(arg) ==
  /\ wpc = "idle" /\ nwrites < MaxWrites
  /\ nwrites' = nwrites + 1
  /\ IF ProbsError(random_nums, arg) = "ok"
     THEN /\ probabilities' = NewProbabilities(random_nums, arg)
          /\ wpc' = "line67"
          /\ UNCHANGED <<quiet, stable>>
     ELSE /\ Returns(Pair)
          /\ UNCHANGED <<probabilities, wpc>>
  /\ UNCHANGED <<random_nums, cumulative_probabilities, constructed, last,
                 call, reader>>

\* line 67: the store of _cumulative_probabilities, and the return
WriteCumulative ==
  /\ wpc = "line67"
  /\ cumulative_probabilities' = Cumulative(probabilities)
  /\ wpc' = "idle"
  /\ Returns(<<random_nums, cumulative_probabilities'>>)
  /\ UNCHANGED <<random_nums, probabilities, constructed, last, call, nwrites,
                 reader>>

\* __init__(nums, arg) called again on the object, line 27: the store of
\* _random_nums (arg is not used before line 28, where it is drawn)
ReinitNums(nums) ==
  /\ wpc = "idle" /\ nwrites < MaxWrites
  /\ random_nums' = nums
  /\ nwrites' = nwrites + 1
  /\ wpc' = "line28"
  /\ UNCHANGED <<probabilities, cumulative_probabilities, constructed, last,
                 call, reader, quiet, stable>>

\* line 28: set_probabilities(arg) up to its store of _probabilities
ReinitProbs(arg) ==
  /\ wpc = "line28"
  /\ IF ProbsError(random_nums, arg) = "ok"
     THEN /\ probabilities' = NewProbabilities(random_nums, arg)
          /\ wpc' = "line67"
          /\ UNCHANGED <<quiet, stable>>
     ELSE /\ wpc' = "idle"
          /\ Returns(Pair)
          /\ UNCHANGED probabilities
  /\ UNCHANGED <<random_nums, cumulative_probabilities, constructed, last,
                 call, nwrites, reader>>

\* next_num, line 76: rand_num = random.random()
ReadDraw(u) ==
  /\ rpc \in {"idle", "done"}
  /\ rand_num' = u
  /\ rpc' = "line77"
  /\ r_nums' = <<>> /\ r_left' = 0 /\ r_right' = 0 /\ r_seen' = {}
  /\ stable' = {quiet}
  /\ UNCHANGED <<state, constructed, last, call, writer, quiet>>

\* line 77: self._random_nums is loaded before _find_index is called
ReadNums ==
  /\ rpc = "line77"
  /\ r_nums' = random_nums
  /\ rpc' = "line89"
  /\ UNCHANGED <<state, constructed, last, call, writer, rand_num, r_left,
                 r_right, r_seen, quiet, stable>>

\* line 89: left, right = 0, len(self._cumulative_probabilities) - 1
ReadLen ==
  /\ rpc = "line89"
  /\ r_left' = 0
  /\ r_right' = Len(cumulative_probabilities) - 1
  /\ r_seen' = {cumulative_probabilities}
  /\ rpc' = "line90"
  /\ UNCHANGED <<state, constructed, last, call, writer, rand_num, r_nums,
                 quiet, stable>>

\* lines 90-95: one turn of the loop, with its load of
\* self._cumulative_probabilities[mid]; IndexError when the list loaded is
\* shorter than the one whose length was taken
ReadMid ==
  /\ rpc = "line90" /\ r_left < r_right
  /\ LET mid == r_left + ((r_right - r_left) \div 2)
         cum == cumulative_probabilities
     IN /\ r_seen' = r_seen \cup {cum}
        /\ IF mid >= Len(cum)
           THEN /\ rpc' = "done"
                /\ last' = [op |-> "next_num", err |-> "IndexError",
                            u |-> rand_num, idx |-> mid, ret |-> 0]
                /\ UNCHANGED <<r_left, r_right>>
           ELSE /\ IF Less(cum[mid + 1], rand_num)
                   THEN r_left' = mid + 1 /\ UNCHANGED r_right
                   ELSE r_right' = mid /\ UNCHANGED r_left
                /\ UNCHANGED <<rpc, last>>
  /\ UNCHANGED <<state, constructed, call, writer, rand_num, r_nums, quiet,
                 stable>>

\* line 96 and the subscript of line 77, on the list loaded before
ReadReturn ==
  /\ rpc = "line90" /\ r_left >= r_right
  /\ rpc' = "done"
  /\ last' = [op |-> "next_num",
              err |-> IF r_left < Len(r_nums) THEN "ok" ELSE "IndexError",
              u |-> rand_num, idx |-> r_left,
              ret |-> IF r_left < Len(r_nums) THEN r_nums[r_left + 1] ELSE 0]
  /\ UNCHANGED <<state, constructed, call, writer, rand_num, r_nums, r_left,
                 r_right, r_seen, quiet, stable>>

\* the writer is between calls and may make another
CanCall == wpc = "idle" /\ nwrites < MaxWrites

NextShared ==
  \/ CanCall /\ \E nums \in ConcNums : WriteNums(nums)
  \/ CanCall /\ \E arg \in ConcArgs : WriteProbs(arg)
  \/ WriteCumulative
  \/ CanCall /\ \E nums \in ConcNums : ReinitNums(nums)
  \/ wpc = "line28" /\ \E arg \in ConcArgs : ReinitProbs(arg)
  \/ \E u \in Draws : ReadDraw(u)
  \/ ReadNums
  \/ ReadLen
  \/ ReadMid
  \/ ReadReturn

SpecShared == InitShared /\ [][NextShared]_vars

(***************************************************************************)
(* Properties of the calls in any order.                                   *)
(***************************************************************************)
NonDecreasing(cum) == \A i \in 1..Len(cum) - 1 : Leq(cum[i], cum[i + 1])

Reaches(cum, u) == \E i \in 1..Len(cum) : Leq(u, cum[i])

\* the smallest 0-based index whose cumulative value is >= u
Leftmost(cum, u) ==
  CHOOSE i \in 0..Len(cum) - 1 :
    /\ Leq(u, cum[i + 1])
    /\ \A j \in 0..i - 1 : Less(cum[j + 1], u)

C2_ZeroWeightUnreachable ==
  (last.op = "next_num" /\ last.idx < Len(probabilities))
  => probabilities[last.idx + 1] # Zero

\* C3: once the constructor has returned, every next_num returns an element
\* of random_nums: the index found is in 0..len(random_nums)-1.
C3_SampleNeverFails ==
  last.op = "next_num"
  => /\ last.err = "ok"
     /\ last.idx \in 0..Len(random_nums) - 1

\* C4: after every successful call the three lists have one length >= 1.
C4_AlignedLengths ==
  constructed
  => /\ Len(random_nums) = Len(probabilities)
     /\ Len(probabilities) = Len(cumulative_probabilities)
     /\ Len(random_nums) >= 1

\* C5: a set_random_nums or set_probabilities that raises leaves the three
\* lists as they were.
C5_FailureIsAtomic ==
  [][(/\ last'.op \in {"set_random_nums", "set_probabilities"}
      /\ last'.err # "ok")
     => UNCHANGED state]_vars

\* a set_probabilities that raised on a constructed object because the sum
\* is not 1
C5_Witness ==
  /\ constructed
  /\ last.op = "set_probabilities"
  /\ last.err = "sum"

\* C10: the cumulative list is the list of the prefix sums (fsum) of the
\* current probabilities, is non-decreasing, and ends within the tolerance
\* of 1.
C10_CumulativeIsRunningSum ==
  constructed
  => /\ Len(cumulative_probabilities) = Len(probabilities)
     /\ \A i \in 1..Len(probabilities) :
          cumulative_probabilities[i] = FSum(SubSeq(probabilities, 1, i))
     /\ NonDecreasing(cumulative_probabilities)
     /\ Len(cumulative_probabilities) >= 1
     /\ IsCloseToOne(cumulative_probabilities[Len(cumulative_probabilities)])

\* a rebuilt list of three that does not end at 1 exactly, after the numbers
\* were replaced and a draw was made
C10_Witness ==
  /\ constructed
  /\ last.op = "next_num"
  /\ Len(cumulative_probabilities) = 3
  /\ cumulative_probabilities[3] # One
  /\ Len(random_nums) # 3

(***************************************************************************)
(* Properties of one call, given its arguments.                            *)
(***************************************************************************)
\* the call was RandomGen(..) or set_probabilities(..), with the numbers in
\* call.nums current when the probabilities were checked
TookProbs == call.op \in {"init", "set_probabilities"}

\* C6: a probabilities list of another length than the numbers is always
\* refused, the empty list included.
C6_LengthMismatchFails ==
  (/\ TookProbs
   /\ Len(call.nums) >= 1
   /\ call.arg # None
   /\ Len(call.arg[1]) # Len(call.nums))
  => last.err # "ok"

\* the sum of p is within 10^-9 of 1, in exact arithmetic
SumWithinTolerance(p) ==
  LET sum == ExactSum(p)
      diff == IF Less(sum, One) THEN Sub(One, sum) ELSE Sub(sum, One)
  IN Leq(diff, <<0, RelTolUnits>>)

\* C7: RandomGen(nums, p) with nums not empty and p of the length of nums
\* succeeds, storing p, if and only if no element of p is negative and the
\* sum of p is within the tolerance of 1; otherwise it raises ValueError.
C7_ValidationIsExact ==
  (/\ call.op = "init"
   /\ Len(call.nums) >= 1
   /\ call.arg # None
   /\ Len(call.arg[1]) = Len(call.nums))
  => LET p == call.arg[1]
         valid == /\ \A i \in 1..Len(p) : Leq(Zero, p[i])
                  /\ SumWithinTolerance(p)
     IN /\ valid <=> (last.err = "ok" /\ constructed)
        /\ valid => probabilities = p /\ random_nums = call.nums
        /\ ~valid => last.err \in {"negative", "sum"}

\* a list refused for a negative element though it sums to 1, and a list
\* accepted though its sum is not 1
C7_Witness ==
  /\ call.op = "init"
  /\ call.arg # None
  /\ Len(call.arg[1]) = Len(call.nums)
  /\ \/ last.err = "negative" /\ ExactSum(call.arg[1]) = One
     \/ last.err = "ok" /\ ExactSum(call.arg[1]) # One /\ Len(call.nums) = 3

\* the probabilities were left out, and the call returned
Omitted == TookProbs /\ call.arg = None /\ last.err = "ok"

\* a draw from an object with one number and the probabilities [1.0]
SingleDraw ==
  call.op = "next_num" /\ Len(random_nums) = 1 /\ probabilities = <<One>>

SingleReturned ==
  /\ cumulative_probabilities = <<One>>
  /\ last.err = "ok"
  /\ last.ret = random_nums[1]

\* b - a or a - b, whichever is not negative
Distance(a, b) == IF Less(a, b) THEN Sub(b, a) ELSE Sub(a, b)

\* C8 as claimed: with the probabilities left out, each probability is 1/n
\* and the k-th cumulative value (counted from 0) is (k+1)/n; an object with
\* one number has the lists [1.0] and [1.0] and always returns that number.
C8_UniformIsKOverN ==
  /\ Omitted
     => LET n == Len(random_nums)
        IN /\ probabilities = [i \in 1..n |-> FDiv(1, n)]
           /\ cumulative_probabilities = [i \in 1..n |-> FDiv(i, n)]
  /\ SingleDraw => SingleReturned

\* C8 as amended: with the probabilities left out, each probability is the
\* double 1/n and the k-th cumulative value is the fsum of k+1 of them, which
\* is the double (k+1)/n for n <= 4 and at most 2^-53 from it otherwise; an
\* object with one number has the lists [1.0] and [1.0] and always returns
\* that number.
C8_UniformIsRoundedSum ==
  /\ Omitted
     => LET n == Len(random_nums)
        IN /\ probabilities = [i \in 1..n |-> FDiv(1, n)]
           /\ Len(cumulative_probabilities) = n
           /\ \A i \in 1..n :
                /\ cumulative_probabilities[i] = FSum([j \in 1..i |-> FDiv(1, n)])
                /\ Leq(Distance(cumulative_probabilities[i], FDiv(i, n)), <<0, 4>>)
                /\ n <= 4 => cumulative_probabilities[i] = FDiv(i, n)
           /\ n = 1 => probabilities = <<One>> /\ cumulative_probabilities = <<One>>
  /\ SingleDraw => SingleReturned

\* the probabilities left out for five numbers, where the third cumulative
\* value is not the double 3/5
C8_Witness ==
  /\ Omitted
  /\ Len(random_nums) = 5
  /\ cumulative_probabilities[3] # FDiv(3, 5)
  /\ cumulative_probabilities[5] = One

(***************************************************************************)
(* Properties of the shared object.                                        *)
(***************************************************************************)
\* C9: a next_num that runs while another thread reconfigures the object
\* sees the object as it was left by one call: the numbers it loaded and
\* every cumulative list it read are those of one pair the object held
\* between the writer's calls.
C9_ReaderSeesOneState ==
  rpc = "done"
  => \E st \in stable : r_nums = st[1] /\ r_seen = {st[2]}

====
